---- MODULE Spec2Model ----
(***************************************************************************)
(* A model of src/main.py: the WakaTime work-log report.  main checks the  *)
(* environment and calls analyze_and_write_csv, which walks a date range   *)
(* one day at a time, fetches the durations of every project, and writes   *)
(* one CSV row for every day that has entries.                             *)
(*                                                                         *)
(* Representation.                                                         *)
(*  - A str is a tuple of one-character strings, so that searching,        *)
(*    splitting and formatting are computed rather than assumed.           *)
(*  - A float duration is a whole number of ticks, TicksPerSecond ticks to *)
(*    the second, so that durations have a fractional part for int() to    *)
(*    drop.                                                                *)
(*  - A datetime is a whole number of slots, SlotsPerDay slots to the day, *)
(*    counted from day 0 of the proleptic Gregorian ordinal (as            *)
(*    date.toordinal counts days), so that datetimes carry a time of day.  *)
(***************************************************************************)
EXTENDS Integers, Sequences, FiniteSets, TLC

\* ------------------------------------------------------------------ bounds

\* Ticks in one second: the resolution of a float duration in the model.
TicksPerSecond == 2

\* Slots in one day: the resolution of a datetime's time of day.
SlotsPerDay == 2

\* The longest date range, in days, a run is given.
MaxSpan == 2

\* ------------------------------------------------------------ str helpers

\* The decimal digits of a natural number, most significant first.
RECURSIVE Digits(_)
Digits(n) ==
    IF n < 10 THEN <<ToString(n)>> ELSE Append(Digits(n \div 10), ToString(n % 10))

\* Python's format spec 0<w>d for n >= 0: at least w digits, zero-padded on
\* the left; a wider number keeps all its digits.
RECURSIVE ZeroPad(_, _)
ZeroPad(s, w) == IF Len(s) >= w THEN s ELSE ZeroPad(<<"0">> \o s, w)

FormatInt(n, w) == ZeroPad(Digits(n), w)

\* str.find: the first index (1-based) at which pat occurs in s at or after
\* position from; 0 when it does not occur.
RECURSIVE FindFrom(_, _, _)
FindFrom(s, pat, from) ==
    IF from + Len(pat) - 1 > Len(s) THEN 0
    ELSE IF SubSeq(s, from, from + Len(pat) - 1) = pat THEN from
    ELSE FindFrom(s, pat, from + 1)

\* pat in s
Contains(s, pat) == FindFrom(s, pat, 1) # 0

\* s.split(pat): the pieces of s between the occurrences of pat, scanned
\* left to right without overlap.
RECURSIVE Split(_, _)
Split(s, pat) ==
    LET i == FindFrom(s, pat, 1) IN
    IF i = 0 THEN <<s>>
    ELSE <<SubSeq(s, 1, i - 1)>> \o Split(SubSeq(s, i + Len(pat), Len(s)), pat)

\* -------------------------------------------------------- format_duration

\* seconds // n for a float of `ticks` ticks, as a whole number.
FloorDivSeconds(ticks, n) == ticks \div (n * TicksPerSecond)

\* seconds % n for a float of `ticks` ticks, in ticks.
ModSeconds(ticks, n) == ticks % (n * TicksPerSecond)

format_duration_no_mod(seconds) ==
    LET hours == FloorDivSeconds(seconds, 3600)
        minutes == FloorDivSeconds(seconds, 60)
        secs == ModSeconds(seconds, 60) \div TicksPerSecond
    IN  FormatInt(hours, 2) \o <<":">> \o FormatInt(minutes, 2) \o <<":">>
            \o FormatInt(secs, 2)

format_duration(seconds) ==
    LET hours == FloorDivSeconds(seconds, 3600)
        minutes == FloorDivSeconds(ModSeconds(seconds, 3600), 60)
        secs == ModSeconds(seconds, 60) \div TicksPerSecond
    IN  FormatInt(hours, 2) \o <<":">> \o FormatInt(minutes, 2) \o <<":">>
            \o FormatInt(secs, 2)

\* ------------------------------------------------------------------ dates

\* datetime.date arithmetic as CPython computes it: days before January 1st
\* of the year, counted from ordinal 1 = 0001-01-01.
DaysBeforeYear(y) ==
    LET y1 == y - 1 IN y1 * 365 + (y1 \div 4) - (y1 \div 100) + (y1 \div 400)

IsLeap(y) == y % 4 = 0 /\ (y % 100 # 0 \/ y % 400 = 0)

DaysInMonth(y, m) ==
    IF m = 2 THEN (IF IsLeap(y) THEN 29 ELSE 28)
    ELSE IF m \in {4, 6, 9, 11} THEN 30 ELSE 31

RECURSIVE DaysBeforeMonth(_, _)
DaysBeforeMonth(y, m) ==
    IF m = 1 THEN 0 ELSE DaysBeforeMonth(y, m - 1) + DaysInMonth(y, m - 1)

\* date(y, m, d).toordinal()
Ymd2Ord(y, m, d) == DaysBeforeYear(y) + DaysBeforeMonth(y, m) + d

\* date.fromordinal(n) as <<year, month, day>>
Ord2Ymd(n) ==
    LET n0 == n - 1
        n400 == n0 \div 146097
        r400 == n0 % 146097
        n100 == r400 \div 36524
        r100 == r400 % 36524
        n4 == r100 \div 1461
        r4 == r100 % 1461
        n1 == r4 \div 365
        r1 == r4 % 365
        year == n400 * 400 + 1 + n100 * 100 + n4 * 4 + n1
    IN  IF n1 = 4 \/ n100 = 4 THEN <<year - 1, 12, 31>>
        ELSE LET m0 == (r1 + 50) \div 32
                 before == DaysBeforeMonth(year, m0)
                 month == IF before > r1 THEN m0 - 1 ELSE m0
             IN  <<year, month, r1 - DaysBeforeMonth(year, month) + 1>>

\* datetime(y, m, d): midnight of that day.
Datetime(y, m, d) == Ymd2Ord(y, m, d) * SlotsPerDay

\* datetime.date(), as an ordinal.
DateOf(dt) == dt \div SlotsPerDay

\* datetime.weekday(): Monday is 0.
Weekday(dt) == (DateOf(dt) + 6) % 7

\* dt.strftime("%Y-%m-%d")
StrftimeYmd(dt) ==
    LET ymd == Ord2Ymd(DateOf(dt))
    IN  FormatInt(ymd[1], 4) \o <<"-">> \o FormatInt(ymd[2], 2) \o <<"-">>
            \o FormatInt(ymd[3], 2)

\* (a - b).days: whole days of the difference, rounded down (a negative
\* timedelta is normalised with a negative days field).
TimedeltaDays(a, b) == (a - b) \div SlotsPerDay

\* dt + timedelta(days=1)
PlusOneDay(dt) == dt + SlotsPerDay

get_weekday_sunday_first(date) ==
    LET weekdays == << <<"d","o","m">>, <<"s","e","g">>, <<"t","e","r">>,
                       <<"q","u","a">>, <<"q","u","i">>, <<"s","e","x">>,
                       <<"s","a","b">> >>
    IN  weekdays[Weekday(date) + 1]

get_weekday(date) ==
    LET weekdays == << <<"s","e","g">>, <<"t","e","r">>, <<"q","u","a">>,
                       <<"q","u","i">>, <<"s","e","x">>, <<"s","a","b">>,
                       <<"d","o","m">> >>
    IN  weekdays[Weekday(date) + 1]

\* "{} ({})".format(current_date.strftime("%Y-%m-%d"), get_weekday(current_date))
DateCell(dt) == StrftimeYmd(dt) \o <<" ", "(">> \o get_weekday(dt) \o <<")">>

\* ------------------------------------------------------------- data model

\* A DurationEntry.  Only entity and duration are read after decoding; the
\* other fields (type, time, project, branch, ...) are carried and never used.
Entry(entity, duration) == [entity |-> entity, duration |-> duration]

\* A whole number of seconds as a float duration.
Seconds(n) == n * TicksPerSecond

\* "src/"
SrcMarker == <<"s", "r", "c", "/">>

MIN_DURATION_IN_SECONDS == 60

\* Entities the service reports.
EntityDocs == <<"d", "/", "r">>
EntityF1 == <<"a", "/", "s", "r", "c", "/", "f">>
EntityF2 == <<"b", "/", "s", "r", "c", "/", "f">>
EntityShort == <<"s", "r", "c", "/", "x">>
EntityNested == <<"s", "r", "c", "/", "b", "/", "s", "r", "c", "/", "c">>

\* The data lists of the responses the service gives: no entries; entries
\* the prompt filter drops (no "src/", or just under a minute); and two files
\* of one name and one formatted duration with a path that has "src/" in it
\* twice.
DataEmpty == <<>>
DataFiltered ==
    << Entry(EntityDocs, Seconds(200)),
       Entry(EntityShort, Seconds(MIN_DURATION_IN_SECONDS) - 1) >>
DataSrc ==
    << Entry(EntityF1, Seconds(120)), Entry(EntityF2, Seconds(120) + 1),
       Entry(EntityNested, Seconds(3600) + 1) >>

ResponsePool == {DataEmpty, DataFiltered, DataSrc}

\* DurationsResponse.total_duration
RECURSIVE total_duration(_)
total_duration(data) ==
    IF data = <<>> THEN 0 ELSE data[1].duration + total_duration(Tail(data))

\* The texts the generation model answers with.
Descriptions == { <<"o", "k">> }

\* projects, as main passes them
MainProjects == <<"sipe-web", "sipe-api", "sipe-api-2", "sipe-api-3">>

\* How many of main's projects a run is given.
NumProjects == 2

Projects == SubSeq(MainProjects, 1, NumProjects)

\* The header row
Header == << <<"D","a","t","a">>, <<"H","o","r","a","s">>,
             <<"D","e","s","c","r","i","ç","ã","o">> >>

\* ------------------------------------------------- generate_work_description

\* entry.entity.split("src/")[1]
EntityName(entity) == Split(entity, SrcMarker)[2]

\* The loop that fills entities_and_duration.
RECURSIVE entities_and_duration(_)
entities_and_duration(entries) ==
    IF entries = <<>> THEN {}
    ELSE LET e == entries[1]
             rest == entities_and_duration(Tail(entries))
         IN  IF ~Contains(e.entity, SrcMarker) THEN rest
             ELSE IF e.duration < Seconds(MIN_DURATION_IN_SECONDS) THEN rest
             ELSE rest \cup { <<EntityName(e.entity), format_duration(e.duration)>> }

\* The prompt: the fixed template with the project label and the file list
\* in it.  The list is joined from a set, in no defined order.
Prompt(entries, project) ==
    [project |-> project, files |-> entities_and_duration(entries)]

NoPrompt == [project |-> <<>>, files |-> {}]

\* ------------------------------------------------------------------- state

VARIABLES
    pc,             \* where the run is
    entry,          \* "main": main() runs; "call": analyze_and_write_csv is called
    env,            \* the two secrets: "unset", "empty" or "set"
    start_date,     \* analyze_and_write_csv's start_date
    end_date,       \* analyze_and_write_csv's end_date
    file,           \* trabalho.csv: whether it exists, and its rows
    days_total,     \* the progress task's total
    completed,      \* the progress task's advances
    current_date,
    daily_entries,  \* daily_entries[current_date]
    total_duration_acc, \* the local total_duration
    pidx,           \* 1-based position of the for loop in projects
    lastLog,        \* the last record given to logger
    \* history, kept for the properties
    file0,          \* the file as it was before the run
    processed,      \* the dates whose iteration began, in order
    fetched,        \* the projects get_durations was called for, this date
    okResps,        \* the data of the fetches that succeeded, this date
    fetchCalls,     \* get_durations calls so far
    genCalls,       \* generation calls, this date
    rowsDay,        \* rows written, this date
    prompt,         \* the prompt of this date's generation call
    failed,         \* the projects whose fetch raised RequestException, this date
    lastOutcome,    \* how the last external call ended
    fileAtDayStart, \* the file when this date's iteration began
    \* format_duration called on its own
    fmtIn,          \* the argument
    fmtOut          \* the string returned, <<>> before the call

vars == <<pc, entry, env, start_date, end_date, file, days_total, completed,
          current_date, daily_entries, total_duration_acc, pidx, lastLog,
          file0, processed, fetched, okResps, fetchCalls, genCalls, rowsDay,
          prompt, failed, lastOutcome, fileAtDayStart, fmtIn, fmtOut>>

SecretStates == {"unset", "empty", "set"}

\* os.getenv(name): None, "" or a non-empty string; the first two are falsy.
Truthy(secret) == secret = "set"

is_environment_valid_any(e) ==
    Truthy(e.OPENAI_API_KEY) \/ Truthy(e.WAKATIME_TOKEN)

is_environment_valid(e) ==
    Truthy(e.OPENAI_API_KEY) /\ Truthy(e.WAKATIME_TOKEN)

NoFile == [exists |-> FALSE, rows |-> <<>>]

\* What an earlier run left behind.
OldFile ==
    [exists |-> TRUE,
     rows |-> <<Header, << <<"o","l","d">>, format_duration(0), <<"o","k">> >> >>]

\* main's start_date
MainStart == Datetime(2024, 10, 21)

\* The days a direct call starts on: main's start day, and the last day of a
\* month, of February in a leap year, and of a year.
SampleStartDays ==
    { Ymd2Ord(2024, 10, 21), Ymd2Ord(2024, 10, 31), Ymd2Ord(2024, 2, 28),
      Ymd2Ord(2023, 12, 31) }

TimesOfDay == 0 .. (SlotsPerDay - 1)

\* A direct call starts at midnight of a sample day, or at any time of main's
\* start day.
StartTimes(e) ==
    IF e = "main" THEN {MainStart}
    ELSE { d * SlotsPerDay : d \in SampleStartDays }
            \cup { MainStart + t : t \in TimesOfDay }

\* end_date: datetime.now() in main, any datetime in a call, here from one
\* slot before the start to MaxSpan days from it.
EndTimes(e, s) ==
    IF e = "main" THEN s .. (s + MaxSpan * SlotsPerDay - 1)
    ELSE (s - 1) .. (s + MaxSpan * SlotsPerDay - 1)

\* The file an earlier run may have left is told apart only where main may
\* return before opening it.
InitialFiles(e) == IF e = "main" THEN {NoFile, OldFile} ELSE {OldFile}

Init ==
    /\ pc = "idle"
    /\ entry \in {"main", "call"}
    /\ env \in [OPENAI_API_KEY : SecretStates, WAKATIME_TOKEN : SecretStates]
    /\ entry = "call" => is_environment_valid(env)
    /\ start_date \in StartTimes(entry)
    /\ end_date \in EndTimes(entry, start_date)
    /\ file0 \in InitialFiles(entry)
    /\ file = file0
    /\ days_total = 0
    /\ completed = 0
    /\ current_date = start_date
    /\ daily_entries = <<>>
    /\ total_duration_acc = 0
    /\ pidx = 1
    /\ lastLog = "none"
    /\ processed = <<>>
    /\ fetched = <<>>
    /\ okResps = <<>>
    /\ fetchCalls = 0
    /\ genCalls = 0
    /\ rowsDay = 0
    /\ prompt = NoPrompt
    /\ lastOutcome = "none"
    /\ fileAtDayStart = file0
    /\ failed = {}
    /\ fmtIn = 0
    /\ fmtOut = <<>>

\* -------------------------------------------------------------------- main

history == <<file0, processed, fetched, okResps, fetchCalls, genCalls, rowsDay,
             prompt, failed, lastOutcome, fileAtDayStart>>

fmtVars == <<fmtIn, fmtOut>>

loopVars == <<current_date, daily_entries, total_duration_acc, pidx>>

\* main, when a secret is missing: the error is logged and main returns.
MainInvalidEnv ==
    /\ pc = "idle"
    /\ entry = "main"
    /\ ~is_environment_valid(env)
    /\ pc' = "returned"
    /\ lastLog' = "error_env"
    /\ UNCHANGED <<fmtVars, entry, env, start_date, end_date, file, days_total,
                   completed, loopVars, history>>

\* open("trabalho.csv", "w") and the first writerow.
OpenAndWriteHeader == [exists |-> TRUE, rows |-> <<Header>>]

\* analyze_and_write_csv up to the first test of the while loop: the file is
\* opened for writing, the header row written, the progress task added.
AnalyzeBegin ==
    /\ file' = OpenAndWriteHeader
    /\ days_total' = TimedeltaDays(end_date, start_date) + 1
    /\ completed' = 0
    /\ current_date' = start_date
    /\ pc' = "while"
    /\ lastLog' = "info_start"
    /\ UNCHANGED <<fmtVars, entry, env, start_date, end_date, daily_entries,
                   total_duration_acc, pidx, history>>

\* main, with both secrets: the clients are built and the analysis called.
MainRun ==
    /\ pc = "idle"
    /\ entry = "main"
    /\ is_environment_valid(env)
    /\ AnalyzeBegin

\* analyze_and_write_csv called with a start_date and an end_date of the
\* caller's.
DirectCall ==
    /\ pc = "idle"
    /\ entry = "call"
    /\ AnalyzeBegin

\* ---------------------------------------------------- analyze_and_write_csv

\* while current_date <= end_date
LoopCondition == current_date <= end_date

\* The body of the while loop up to the for loop: the accumulators are made
\* anew for the date.
WhileEnter ==
    /\ pc = "while"
    /\ LoopCondition
    /\ daily_entries' = <<>>
    /\ total_duration_acc' = 0
    /\ pidx' = 1
    /\ pc' = "for"
    /\ processed' = Append(processed, DateOf(current_date))
    /\ fetched' = <<>>
    /\ okResps' = <<>>
    /\ genCalls' = 0
    /\ rowsDay' = 0
    /\ prompt' = NoPrompt
    /\ failed' = {}
    /\ fileAtDayStart' = file
    /\ UNCHANGED <<fmtVars, entry, env, start_date, end_date, file, days_total,
                   completed, current_date, lastLog, file0, fetchCalls,
                   lastOutcome>>

\* The loop ends, the file is closed and the completion logged.
WhileExit ==
    /\ pc = "while"
    /\ ~LoopCondition
    /\ pc' = "done"
    /\ lastLog' = "info_done"
    /\ UNCHANGED <<fmtVars, entry, env, start_date, end_date, file, days_total,
                   completed, loopVars, history>>

InForLoop == pc = "for" /\ pidx <= Len(Projects)

\* The durations of the entries the prompt filter keeps.
RECURSIVE FilteredTotal(_)
FilteredTotal(data) ==
    IF data = <<>> THEN 0
    ELSE (IF Contains(data[1].entity, SrcMarker)
             /\ data[1].duration >= Seconds(MIN_DURATION_IN_SECONDS)
          THEN data[1].duration ELSE 0) + FilteredTotal(Tail(data))

AccumulateFiltered(acc, data) == acc + FilteredTotal(data)

\* total_duration += durations.total_duration
Accumulate(acc, data) == acc + total_duration(data)

\* get_durations returns a response: its total and its entries are added.
FetchOk ==
    /\ InForLoop
    /\ \E data \in ResponsePool :
        /\ total_duration_acc' = Accumulate(total_duration_acc, data)
        /\ daily_entries' = daily_entries \o data
        /\ okResps' = Append(okResps, data)
    /\ pidx' = pidx + 1
    /\ fetched' = Append(fetched, Projects[pidx])
    /\ fetchCalls' = fetchCalls + 1
    /\ lastOutcome' = "ok"
    /\ UNCHANGED <<fmtVars, pc, entry, env, start_date, end_date, file, days_total,
                   completed, current_date, lastLog, file0, processed,
                   genCalls, rowsDay, prompt, fileAtDayStart, failed>>

FetchRequestExceptionUncaught ==
    /\ InForLoop
    /\ pc' = "aborted"
    /\ fetched' = Append(fetched, Projects[pidx])
    /\ fetchCalls' = fetchCalls + 1
    /\ lastOutcome' = "http"
    /\ failed' = failed \cup {Projects[pidx]}
    /\ UNCHANGED <<fmtVars, entry, env, start_date, end_date, file, days_total,
                   completed, loopVars, lastLog, file0, processed, okResps,
                   genCalls, rowsDay, prompt, fileAtDayStart>>

\* get_durations raises requests.RequestException (the connection, or
\* raise_for_status): the error is logged and the for loop goes on.
FetchRequestException ==
    /\ InForLoop
    /\ lastLog' = "error_fetch"
    /\ pidx' = pidx + 1
    /\ fetched' = Append(fetched, Projects[pidx])
    /\ fetchCalls' = fetchCalls + 1
    /\ lastOutcome' = "http"
    /\ failed' = failed \cup {Projects[pidx]}
    /\ UNCHANGED <<fmtVars, pc, entry, env, start_date, end_date, file, days_total,
                   completed, current_date, daily_entries, total_duration_acc,
                   file0, processed, okResps, genCalls, rowsDay, prompt,
                   fileAtDayStart>>

FetchDecodeErrorCaught ==
    /\ InForLoop
    /\ lastLog' = "error_fetch"
    /\ pidx' = pidx + 1
    /\ fetched' = Append(fetched, Projects[pidx])
    /\ fetchCalls' = fetchCalls + 1
    /\ lastOutcome' = "decode"
    /\ UNCHANGED <<fmtVars, pc, entry, env, start_date, end_date, file, days_total,
                   completed, current_date, daily_entries, total_duration_acc,
                   file0, processed, okResps, genCalls, rowsDay, prompt,
                   fileAtDayStart, failed>>

\* from_dict raises KeyError on an entry with a key missing: no except clause
\* matches, the exception leaves analyze_and_write_csv, the with block closes
\* the file.
FetchDecodeError ==
    /\ InForLoop
    /\ pc' = "aborted"
    /\ fetched' = Append(fetched, Projects[pidx])
    /\ fetchCalls' = fetchCalls + 1
    /\ lastOutcome' = "decode"
    /\ UNCHANGED <<fmtVars, entry, env, start_date, end_date, file, days_total,
                   completed, loopVars, lastLog, file0, processed, okResps,
                   genCalls, rowsDay, prompt, fileAtDayStart, failed>>

AfterForLoop == pc = "for" /\ pidx > Len(Projects)

HasEntriesFiltered(entries) == entities_and_duration(entries) # {}

\* if daily_entries[current_date]:
HasEntries(entries) == entries # <<>>

WriteRowFirst(f, row) == [f EXCEPT !.rows = <<row>> \o @]

\* writer.writerow(row)
WriteRow(f, row) == [f EXCEPT !.rows = Append(@, row)]

\* The row of the date.
Row(date, total, description) ==
    <<DateCell(date), format_duration(total), description>>

\* The date has entries and the generation call answers: the row is written
\* and the loop steps to the next day.
GenerateOk ==
    /\ AfterForLoop
    /\ HasEntries(daily_entries)
    /\ \E description \in Descriptions :
        file' = WriteRow(file, Row(current_date, total_duration_acc, description))
    /\ prompt' = Prompt(daily_entries, Projects)
    /\ genCalls' = genCalls + 1
    /\ rowsDay' = rowsDay + 1
    /\ lastOutcome' = "gen_ok"
    /\ current_date' = PlusOneDay(current_date)
    /\ completed' = completed + 1
    /\ pc' = "while"
    /\ UNCHANGED <<fmtVars, entry, env, start_date, end_date, days_total,
                   daily_entries, total_duration_acc, pidx, lastLog, file0,
                   processed, fetched, okResps, fetchCalls, fileAtDayStart, failed>>

\* The date has entries and the generation call raises: nothing catches it.
GenerateFail ==
    /\ AfterForLoop
    /\ HasEntries(daily_entries)
    /\ prompt' = Prompt(daily_entries, Projects)
    /\ genCalls' = genCalls + 1
    /\ lastOutcome' = "gen_fail"
    /\ pc' = "aborted"
    /\ UNCHANGED <<fmtVars, entry, env, start_date, end_date, file, days_total,
                   completed, loopVars, lastLog, file0, processed, fetched,
                   okResps, fetchCalls, rowsDay, fileAtDayStart, failed>>

\* The date has no entries: no call, no row, the loop steps to the next day.
SkipDay ==
    /\ AfterForLoop
    /\ ~HasEntries(daily_entries)
    /\ current_date' = PlusOneDay(current_date)
    /\ completed' = completed + 1
    /\ pc' = "while"
    /\ UNCHANGED <<fmtVars, entry, env, start_date, end_date, file, days_total,
                   daily_entries, total_duration_acc, pidx, lastLog, history>>

Next ==
    \/ MainInvalidEnv
    \/ MainRun
    \/ DirectCall
    \/ WhileEnter
    \/ WhileExit
    \/ FetchOk
    \/ FetchRequestException
    \/ FetchDecodeError
    \/ GenerateOk
    \/ GenerateFail
    \/ SkipDay

Spec == Init /\ [][Next]_vars

\* ------------------------------------------- format_duration on its own

\* Durations around the second, the minute, the hour, the day and a hundred
\* hours, with their fractions.
FmtAnchors == {0, 59, 3599, 3660, 86399, 359999, 3599999}

FmtInputs == { Seconds(a) + k : a \in FmtAnchors, k \in 0 .. Seconds(5) }

InitFmt ==
    /\ pc = "fmt"
    /\ fmtIn \in FmtInputs
    /\ fmtOut = <<>>
    /\ entry = "call"
    /\ env = [OPENAI_API_KEY |-> "set", WAKATIME_TOKEN |-> "set"]
    /\ start_date = MainStart
    /\ end_date = MainStart
    /\ file0 = NoFile
    /\ file = file0
    /\ days_total = 0
    /\ completed = 0
    /\ current_date = start_date
    /\ daily_entries = <<>>
    /\ total_duration_acc = 0
    /\ pidx = 1
    /\ lastLog = "none"
    /\ processed = <<>>
    /\ fetched = <<>>
    /\ okResps = <<>>
    /\ fetchCalls = 0
    /\ genCalls = 0
    /\ rowsDay = 0
    /\ prompt = NoPrompt
    /\ failed = {}
    /\ lastOutcome = "none"
    /\ fileAtDayStart = file0

FormatCall ==
    /\ pc = "fmt"
    /\ fmtOut' = format_duration(fmtIn)
    /\ pc' = "fmt_done"
    /\ UNCHANGED <<fmtIn, entry, env, start_date, end_date, file, days_total,
                   completed, loopVars, lastLog, history>>

NextFmt == FormatCall

SpecFmt == InitFmt /\ [][NextFmt]_vars

\* ------------------------------------------------------------ properties

\* Reading a rendered string back.
DigitChars == { ToString(d) : d \in 0 .. 9 }

IsDigits(s) == Len(s) > 0 /\ \A i \in 1 .. Len(s) : s[i] \in DigitChars

DigitValue(c) == CHOOSE d \in 0 .. 9 : ToString(d) = c

RECURSIVE ParseNat(_)
ParseNat(s) ==
    IF s = <<>> THEN 0
    ELSE ParseNat(SubSeq(s, 1, Len(s) - 1)) * 10 + DigitValue(s[Len(s)])

\* The fields of an H:M:S string, and the whole seconds it stands for.
HmsFields(s) == Split(s, <<":">>)

HmsWellFormed(s) ==
    /\ Len(HmsFields(s)) = 3
    /\ \A i \in 1 .. 3 : IsDigits(HmsFields(s)[i])

HmsSeconds(s) ==
    ParseNat(HmsFields(s)[1]) * 3600 + ParseNat(HmsFields(s)[2]) * 60
        + ParseNat(HmsFields(s)[3])

\* floor(d) of a float duration
WholeSeconds(ticks) == ticks \div TicksPerSecond

\* The concatenation of a sequence of lists.
RECURSIVE Flatten(_)
Flatten(lists) ==
    IF lists = <<>> THEN <<>> ELSE lists[1] \o Flatten(Tail(lists))

RECURSIVE SumDurations(_)
SumDurations(entries) ==
    IF entries = <<>> THEN 0
    ELSE entries[Len(entries)].duration
            + SumDurations(SubSeq(entries, 1, Len(entries) - 1))

\* The file was opened by this run.
Opened == pc \in {"while", "for", "done", "aborted"}

\* The iteration of the last date in processed has run to its end.
DayComplete == pc \in {"while", "done"} /\ processed # <<>>

DataRows == Tail(file.rows)

\* "YYYY-MM-DD (abbr)": the shape of a date cell and what it reads as.
DateCellWellFormed(c) ==
    /\ Len(c) = 16
    /\ IsDigits(SubSeq(c, 1, 4)) /\ c[5] = "-"
    /\ IsDigits(SubSeq(c, 6, 7)) /\ c[8] = "-"
    /\ IsDigits(SubSeq(c, 9, 10))
    /\ c[11] = " " /\ c[12] = "(" /\ c[16] = ")"

CellYear(c) == ParseNat(SubSeq(c, 1, 4))
CellMonth(c) == ParseNat(SubSeq(c, 6, 7))
CellDay(c) == ParseNat(SubSeq(c, 9, 10))
CellAbbr(c) == SubSeq(c, 13, 15)
CellKey(c) == CellYear(c) * 10000 + CellMonth(c) * 100 + CellDay(c)

\* C1: a fetch that raises RequestException never aborts the run:
\* get_durations goes on to be called for the remaining projects of the date
\* and for every project of every later date, each once and in order.
C1_FetchFailureNeverAborts ==
    /\ pc = "aborted" => lastOutcome \in {"decode", "gen_fail"}
    /\ lastOutcome = "http" => pc # "aborted"
    /\ pc = "for" => /\ pidx <= Len(Projects) + 1
                     /\ fetched = SubSeq(Projects, 1, pidx - 1)
    /\ DayComplete => fetched = Projects
    /\ (Opened /\ pc # "aborted" /\ processed # <<>>) =>
            fetchCalls = (Len(processed) - 1) * Len(Projects) + Len(fetched)
    /\ pc = "done" => fetchCalls = Len(processed) * Len(Projects)
    /\ failed \subseteq { fetched[i] : i \in 1 .. Len(fetched) }

\* C1 witness: on the second date the first project's fetch failed and the
\* next project was fetched all the same, the run going on to its end.
C1_Witness ==
    /\ pc = "done"
    /\ Len(processed) = 2
    /\ failed = {Projects[1]}
    /\ fetched = Projects
    /\ okResps # <<>>
    /\ fetchCalls = 2 * Len(Projects)

\* C2: a date gets one generation call and one row exactly when the entries
\* of its successful fetches are not empty, whatever the prompt filter keeps;
\* a date with no entries gets neither.
C2_RowIffEntries ==
    /\ genCalls <= 1 /\ rowsDay <= 1
    /\ Opened /\ processed # <<>> =>
            Len(file.rows) = Len(fileAtDayStart.rows) + rowsDay
    /\ DayComplete =>
        /\ Flatten(okResps) # <<>> => genCalls = 1 /\ rowsDay = 1
        /\ Flatten(okResps) = <<>> => genCalls = 0 /\ rowsDay = 0
    /\ pc = "for" /\ pidx <= Len(Projects) => genCalls = 0 /\ rowsDay = 0

\* C2 witness: a date whose entries the prompt filter all drops, with its
\* generation call and its row.
C2_Witness ==
    /\ DayComplete
    /\ Flatten(okResps) # <<>>
    /\ prompt.files = {}
    /\ genCalls = 1
    /\ rowsDay = 1

\* C3: the duration of a date's row is the sum of the durations of all the
\* entries of the fetches that succeeded for that date, in whole seconds as
\* H:M:S; a failed fetch adds nothing, and nothing is carried over from the
\* date before.
C3_RowDuration ==
    /\ pc = "for" =>
        /\ daily_entries = Flatten(okResps)
        /\ total_duration_acc = SumDurations(Flatten(okResps))
        /\ Len(okResps) + Cardinality(failed) = Len(fetched)
    /\ DayComplete /\ rowsDay = 1 =>
        LET cell == file.rows[Len(file.rows)][2]
        IN  /\ HmsWellFormed(cell)
            /\ HmsSeconds(cell) = WholeSeconds(SumDurations(Flatten(okResps)))
            /\ Len(okResps) + Cardinality(failed) = Len(Projects)

\* C3 witness: the second date's row, written after one fetch failed and one
\* succeeded with entries the filter drops and fractions of a second.
C3_Witness ==
    /\ DayComplete
    /\ Len(processed) = 2
    /\ Len(fileAtDayStart.rows) = 2
    /\ rowsDay = 1
    /\ Cardinality(failed) = 1
    /\ okResps = <<DataFiltered>>

\* C4: once opened the file starts with the header row, written before any
\* fetch, and the data rows after it are in strictly increasing date order,
\* so at most one to a date.
C4_HeaderThenAscendingRows ==
    /\ fetchCalls > 0 \/ genCalls > 0 => Opened
    /\ Opened =>
        /\ file.exists
        /\ Len(file.rows) >= 1
        /\ file.rows[1] = << <<"D","a","t","a">>, <<"H","o","r","a","s">>,
                             <<"D","e","s","c","r","i","ç","ã","o">> >>
        /\ \A i \in 1 .. Len(DataRows) : DateCellWellFormed(DataRows[i][1])
        /\ \A i, j \in 1 .. Len(DataRows) :
                i < j => CellKey(DataRows[i][1]) < CellKey(DataRows[j][1])

\* C4 witness: two data rows, the second written on a date one fetch failed.
C4_Witness ==
    /\ pc = "done"
    /\ Len(file.rows) = 3
    /\ failed # {}

\* The calendar days from the day of start_date to the day of end_date.
DaysOfRange ==
    [i \in 1 .. (DateOf(end_date) - DateOf(start_date) + 1) |->
        DateOf(start_date) + i - 1]

\* C5: with start_date <= end_date the loop processes every calendar day from
\* the day of start_date to the day of end_date, both included, once each and
\* in order, whatever the times of day, and advances the progress task
\* days_total times.
C5_EveryDayOfRangeProcessed ==
    (pc = "done" /\ start_date <= end_date) =>
        /\ Len(processed) = Len(DaysOfRange)
        /\ \A i \in 1 .. Len(processed) : processed[i] = DaysOfRange[i]
        /\ completed = days_total

\* The text to the right of the first "src/" of an entity.
AfterFirstSrc(entity) ==
    SubSeq(entity, FindFrom(entity, SrcMarker, 1) + Len(SrcMarker), Len(entity))

\* C6: the file list of the prompt is the set of pairs (name, formatted
\* duration) of the entries that have "src/" in the entity and last a minute
\* or more, the name being all the text after the first "src/".
C6_PromptFileList ==
    genCalls = 1 =>
        prompt.files =
            { <<AfterFirstSrc(e.entity), format_duration(e.duration)>> :
                e \in { daily_entries[i] : i \in
                        { k \in 1 .. Len(daily_entries) :
                            /\ Contains(daily_entries[k].entity, SrcMarker)
                            /\ daily_entries[k].duration
                                 >= Seconds(MIN_DURATION_IN_SECONDS) } } }

\* What holds of format_duration(d) for every d >= 0, the width of the hours
\* aside.
FmtRoundTrip ==
    /\ HmsWellFormed(fmtOut)
    /\ HmsSeconds(fmtOut) = WholeSeconds(fmtIn)
    /\ ParseNat(HmsFields(fmtOut)[2]) < 60
    /\ ParseNat(HmsFields(fmtOut)[3]) < 60
    /\ Len(HmsFields(fmtOut)[2]) = 2
    /\ Len(HmsFields(fmtOut)[3]) = 2
    /\ fmtIn = Seconds(0) =>
            fmtOut = <<"0", "0", ":", "0", "0", ":", "0", "0">>
    /\ fmtIn = Seconds(59) =>
            fmtOut = <<"0", "0", ":", "0", "0", ":", "5", "9">>
    /\ fmtIn = Seconds(3661) =>
            fmtOut = <<"0", "1", ":", "0", "1", ":", "0", "1">>

\* C7 as stated: for every d >= 0 the fields h, m, s of format_duration(d)
\* add up to floor(d), m and s are below 60, and each of the three fields is
\* two digits wide.
C7_TwoDigitFields ==
    pc = "fmt_done" =>
        /\ FmtRoundTrip
        /\ Len(HmsFields(fmtOut)[1]) = 2

\* C7 amended: the same, with the hours field two digits wide below a
\* hundred hours and as wide as the number of hours, unpadded, from there on.
C7_FormatDuration ==
    pc = "fmt_done" =>
        /\ FmtRoundTrip
        /\ WholeSeconds(fmtIn) < 100 * 3600 => Len(HmsFields(fmtOut)[1]) = 2
        /\ WholeSeconds(fmtIn) >= 100 * 3600 =>
                /\ Len(HmsFields(fmtOut)[1]) > 2
                /\ HmsFields(fmtOut)[1][1] # "0"

\* C7 witness: a duration of an hour, a minute, a second and a fraction.
C7_Witness ==
    /\ pc = "fmt_done"
    /\ fmtIn = Seconds(3661) + 1
    /\ fmtOut = <<"0", "1", ":", "0", "1", ":", "0", "1">>

\* C8: with a secret unset or empty main logs the error and returns; the
\* file is neither created nor truncated and nothing is fetched or
\* generated.  main opens the file only with both secrets set.
C8_MissingSecretNoOutput ==
    entry = "main" =>
        /\ (env.OPENAI_API_KEY # "set" \/ env.WAKATIME_TOKEN # "set") =>
            /\ pc \in {"idle", "returned"}
            /\ file = file0
            /\ fetchCalls = 0
            /\ genCalls = 0
            /\ processed = <<>>
            /\ pc = "returned" => lastLog = "error_env"
        /\ Opened => env.OPENAI_API_KEY = "set" /\ env.WAKATIME_TOKEN = "set"
        /\ pc = "returned" =>
                env.OPENAI_API_KEY # "set" \/ env.WAKATIME_TOKEN # "set"

\* C8 witness: main has returned, one secret set and the other empty, the
\* file of an earlier run still there.
C8_Witness ==
    /\ entry = "main"
    /\ pc = "returned"
    /\ env = [OPENAI_API_KEY |-> "set", WAKATIME_TOKEN |-> "empty"]
    /\ file = OldFile

\* C9: a decode failure in get_durations or a failure of the generation call
\* ends the run: the date gets no row, nothing more is fetched, generated or
\* written, and the rows of the dates before stay as they were.
C9_OtherFailuresAbort ==
    /\ lastOutcome \in {"decode", "gen_fail"} =>
        /\ pc = "aborted"
        /\ file = fileAtDayStart
        /\ rowsDay = 0
    /\ pc = "aborted" =>
        /\ ~ENABLED Next
        /\ file.rows[1] = Header
        /\ Len(DataRows) <= Len(processed) - 1
        /\ \A i \in 1 .. Len(DataRows) :
                CellKey(DataRows[i][1]) < CellKey(StrftimeYmd(current_date))

\* C9 witness: on the second date the first fetch gave entries and the second
\* failed to decode; the first date's row is all the file holds.
C9_Witness ==
    /\ pc = "aborted"
    /\ lastOutcome = "decode"
    /\ Len(processed) = 2
    /\ okResps = <<DataSrc>>
    /\ Len(file.rows) = 2

MondayFirst ==
    << <<"s","e","g">>, <<"t","e","r">>, <<"q","u","a">>, <<"q","u","i">>,
       <<"s","e","x">>, <<"s","a","b">>, <<"d","o","m">> >>

\* 2024-10-21, a Monday.
KnownMonday == Ymd2Ord(2024, 10, 21)

\* The date a cell reads as is a date of the calendar, and the abbreviation
\* beside it is that date's, counted from a known Monday.
CellConsistent(c) ==
    /\ DateCellWellFormed(c)
    /\ CellMonth(c) \in 1 .. 12
    /\ CellDay(c) \in 1 .. DaysInMonth(CellYear(c), CellMonth(c))
    /\ CellAbbr(c) =
         MondayFirst[((Ymd2Ord(CellYear(c), CellMonth(c), CellDay(c))
                        - KnownMonday) % 7) + 1]

Cell20241021Seg ==
    <<"2","0","2","4","-","1","0","-","2","1"," ","(","s","e","g",")">>

\* C10: the first cell of a data row is "YYYY-MM-DD (abbr)" of the date being
\* processed, abbr the Monday-first abbreviation of that date's weekday; from
\* 2024-10-21 to 2024-10-22 with entries on the first day only the one data
\* row is dated "2024-10-21 (seg)".
C10_DateCell ==
    /\ Opened => \A i \in 1 .. Len(DataRows) : CellConsistent(DataRows[i][1])
    /\ DayComplete /\ rowsDay = 1 =>
        LET c == file.rows[Len(file.rows)][1]
        IN  Ymd2Ord(CellYear(c), CellMonth(c), CellDay(c))
                = processed[Len(processed)]
    /\ ( /\ pc = "done"
         /\ start_date = Datetime(2024, 10, 21)
         /\ DateOf(end_date) = Ymd2Ord(2024, 10, 22)
         /\ Len(fileAtDayStart.rows) = 2
         /\ Flatten(okResps) = <<>> ) =>
            /\ Len(DataRows) = 1
            /\ DataRows[1][1] = Cell20241021Seg

\* C10 witness: that run, ended, its one data row dated "2024-10-21 (seg)".
C10_Witness ==
    /\ pc = "done"
    /\ start_date = Datetime(2024, 10, 21)
    /\ DateOf(end_date) = Ymd2Ord(2024, 10, 22)
    /\ Flatten(okResps) = <<>>
    /\ failed = {}
    /\ DataRows = << <<Cell20241021Seg, format_duration(Seconds(200) + Seconds(60) - 1), <<"o","k">> >> >>

====
